---- MODULE Spec2Model ----
(***************************************************************************)
(* Model of the historical timestamp resolution of dossie-rs/cli:          *)
(*   src/src/git_utils.rs  build_cache, normalize_paths, latest_addition,  *)
(*                         latest_change                                   *)
(*   src/src/main.rs       load_specs_from_directory (timestamp resolver), *)
(*                         file_timestamps                                 *)
(*                                                                         *)
(* The specifications share the variables:                                 *)
(*   Spec         one repository, build_cache run on it                    *)
(*   SpecFaulty   the same on a repository with a failing object or setup  *)
(*   SpecTerminate  the same under fairness, for the build's termination   *)
(*   SpecNormalize  build_cache called with paths of every kind            *)
(*   SpecOverflow   build_cache on commits with any i64 commit time        *)
(*   SpecRebuild  the same, with build_cache run a second time             *)
(*   SpecTimestamp  first_commit_timestamp and last_commit_timestamp       *)
(*   SpecQuery    a built cache, queried by latest_addition/latest_change  *)
(*   SpecResolve  the per-document resolver of load_specs_from_directory   *)
(*   SpecSort     the sort of the loaded documents                         *)
(***************************************************************************)
EXTENDS Integers, Sequences, FiniteSets, TLC

VARIABLES
    repo,               \* the repository: commits, their times, parents and trees
    paths,              \* build_cache's `paths` argument (a list of PathBuf)
    pc,                 \* position of the running operation
    times,              \* HashMap<PathBuf, PathTimes> (the cache under construction)
    pending_additions,  \* HashSet<PathBuf>
    pending_changes,    \* HashSet<PathBuf>
    walked,             \* commits the revwalk has yielded so far
    prev_build,         \* the previous build's input paths and returned cache, if any
    queries,            \* the cache queries made so far, with their results
    discovered,         \* load_specs_from_directory: Repository::discover finds one
    git_repo,           \* load_specs_from_directory: git_repo.is_some()
    git_cache,          \* load_specs_from_directory: Option<GitTimestampCache>
    doc,                \* the PendingSpec being resolved, with its file's stat
    spec_doc,           \* the SpecDocument resolved from it, if any
    specs               \* Vec<SpecDocument>: the loaded documents (id, updated_sort)

buildVars == <<repo, paths, times, pending_additions, pending_changes, walked,
               prev_build>>
resolveVars == <<discovered, git_repo, git_cache, doc, spec_doc, specs>>
vars == <<repo, paths, pc, times, pending_additions, pending_changes, walked,
          prev_build, queries, discovered, git_repo, git_cache, doc, spec_doc,
          specs>>

-----------------------------------------------------------------------------
(* Bounds *)

MaxCommits == 3
MaxTime == 2
MaxBlob == 2
MaxPaths == 2

-----------------------------------------------------------------------------
(* Option<T>: None is the empty sequence, Some(x) the one-element sequence *)

None == <<>>
Some(x) == <<x>>
IsSome(o) == o /= None
Unwrap(o) == o[1]
\* Option::or
Or(a, b) == IF IsSome(a) THEN a ELSE b

SetMax(S) == CHOOSE x \in S : \A y \in S : y <= x
SetMin(S) == CHOOSE x \in S : \A y \in S : x <= y

SeqsUpTo(S, n) == UNION {[1..k -> S] : k \in 0..n}
Elems(s) == {s[i] : i \in 1..Len(s)}

-----------------------------------------------------------------------------
(* Paths.  A tracked file is named by its root-relative path.  A PathBuf    *)
(* handed to the program carries its literal text, whether that text is    *)
(* absolute, what canonicalize() returns for it (after root.join for a     *)
(* relative one) and the non-canonicalized absolute form used as fallback. *)
(* An absolute location is under the root (with its root-relative          *)
(* remainder) or not.                                                      *)

Paths == {"a.md", "b.md"}

UnderRoot(rel) == [under_root |-> TRUE, rel |-> rel]

RelA == [text |-> "a.md", absolute |-> FALSE,
         canonical |-> Some(UnderRoot("a.md")), lexical |-> UnderRoot("a.md")]
RelB == [text |-> "b.md", absolute |-> FALSE,
         canonical |-> Some(UnderRoot("b.md")), lexical |-> UnderRoot("b.md")]
AbsB == [text |-> "/repo/b.md", absolute |-> TRUE,
         canonical |-> Some(UnderRoot("b.md")), lexical |-> UnderRoot("b.md")]

\* the PathBufs build_cache is called with
InputPaths == {RelA, AbsB}

OutsideRoot == [under_root |-> FALSE, rel |-> ""]

\* a relative path of no existing file: canonicalize() fails
RelGhost == [text |-> "ghost.md", absolute |-> FALSE,
             canonical |-> None, lexical |-> UnderRoot("ghost.md")]
\* a relative path of no existing file above the root: root.join(path) still
\* starts with the components of the root
RelEscapingGhost == [text |-> "../ghost.md", absolute |-> FALSE,
                     canonical |-> None, lexical |-> UnderRoot("../ghost.md")]
\* a symbolic link in the root to a file outside of it
RelLinkOut == [text |-> "link.md", absolute |-> FALSE,
               canonical |-> Some(OutsideRoot), lexical |-> UnderRoot("link.md")]
\* a symbolic link in the root to a.md
RelAlias == [text |-> "alias.md", absolute |-> FALSE,
             canonical |-> Some(UnderRoot("a.md")), lexical |-> UnderRoot("alias.md")]
\* an existing file outside the root
AbsOutside == [text |-> "/tmp/x.md", absolute |-> TRUE,
               canonical |-> Some(OutsideRoot), lexical |-> OutsideRoot]
\* an absolute path of no existing file outside the root
AbsGhostOutside == [text |-> "/tmp/ghost.md", absolute |-> TRUE,
                    canonical |-> None, lexical |-> OutsideRoot]

\* the PathBufs normalize_paths is tried on
NormalizeInputs ==
    InputPaths \cup {RelB, RelGhost, RelEscapingGhost, RelLinkOut, RelAlias,
                     AbsOutside, AbsGhostOutside}
\* the PathBufs the cache is queried with
QueryPaths == {RelA, RelB, AbsB}

-----------------------------------------------------------------------------
(* The repository.  Commits are numbered in creation order, so a parent has *)
(* a smaller number than its child; 0 is "no parent".  A tree maps a path   *)
(* to its blob (0: the path is absent).  Blobs are numbered per path in     *)
(* order of first appearance.  HEAD is the commit created last.  fault     *)
(* names what fails to load when the walk handles a commit ("none": all    *)
(* loads): "oid" the revwalk item, "commit" find_commit, "tree" the        *)
(* commit's tree, "parent" the lookup of its first parent, "diff" the      *)
(* diff.  setup names the step of the revwalk's setup that fails ("ok":    *)
(* none): "revwalk" its creation, "sorting" set_sorting, "push_head"       *)
(* push_head.                                                              *)

Commits == 1..MaxCommits
HeadCommit == MaxCommits
EmptyTree == [p \in Paths |-> 0]

ParentsOk(p1, p2) ==
    \A c \in Commits :
        /\ p1[c] < c
        /\ p2[c] < c
        /\ p2[c] /= 0 => (p1[c] /= 0 /\ p2[c] /= p1[c])

BlobsOk(tree) ==
    \A c \in Commits, p \in Paths :
        tree[c][p] <= 1 + SetMax({0} \cup {tree[d][p] : d \in 1..(c - 1)})

ParentChoices ==
    {ps \in [parent1 : [Commits -> 0..(MaxCommits - 1)],
             parent2 : [Commits -> 0..(MaxCommits - 1)]] :
        ParentsOk(ps.parent1, ps.parent2)}

TreeChoices == {t \in [Commits -> [Paths -> 0..MaxBlob]] : BlobsOk(t)}

NoFaults == [c \in Commits |-> "none"]

Repositories ==
    {[time |-> tm, parent1 |-> ps.parent1, parent2 |-> ps.parent2,
      tree |-> tr, fault |-> NoFaults, setup |-> "ok"] :
        tm \in [Commits -> 1..MaxTime], ps \in ParentChoices, tr \in TreeChoices}

RECURSIVE Ancestors(_, _)
Ancestors(r, c) ==
    IF c = 0 THEN {}
    ELSE {c} \cup Ancestors(r, r.parent1[c]) \cup Ancestors(r, r.parent2[c])

\* revwalk.push_head(): everything reachable from HEAD
Reachable(r) == Ancestors(r, HeadCommit)

\* faulty variant: a commit without parent diffed against its own tree
ParentTreeRootSelf(r, c) ==
    IF r.parent1[c] = 0 THEN r.tree[c]
    ELSE IF r.fault[c] = "parent" \/ r.fault[r.parent1[c]] = "tree" THEN EmptyTree
    ELSE r.tree[r.parent1[c]]

\* faulty variant: the diff of a merge made against its last parent
ParentTreeLastParent(r, c) ==
    IF r.parent1[c] = 0 THEN EmptyTree
    ELSE IF r.parent2[c] /= 0 THEN r.tree[r.parent2[c]]
    ELSE r.tree[r.parent1[c]]

\* commit.parent(0).ok().and_then(|p| p.tree().ok()): None, and so the empty
\* tree in the diff, for a root commit, for a first parent that cannot be
\* looked up and for a first parent whose tree cannot be loaded
ParentTree(r, c) ==
    IF r.parent1[c] = 0 THEN EmptyTree
    ELSE IF r.fault[c] = "parent" \/ r.fault[r.parent1[c]] = "tree" THEN EmptyTree
    ELSE r.tree[r.parent1[c]]

\* the status of path p in diff_tree_to_tree(parent_tree, tree)
DeltaStatus(r, c, p) ==
    LET old == ParentTree(r, c)[p]
        new == r.tree[c][p]
    IN  IF old = new THEN "Unmodified"
        ELSE IF old = 0 THEN "Added"
        ELSE IF new = 0 THEN "Deleted"
        ELSE "Modified"

\* diff.deltas(): one delta per changed path
Deltas(r, c) ==
    {[path |-> p, status |-> DeltaStatus(r, c, p)] :
        p \in {q \in Paths : DeltaStatus(r, c, q) /= "Unmodified"}}

\* i64, scaled: the width of a timestamp in bits
I64Bits == 16

MaxI64 == 2 ^ (I64Bits - 1) - 1
MinI64 == -(2 ^ (I64Bits - 1))

\* the value an i64 operation leaves without overflow checks
WrapI64(x) == ((x - MinI64) % (2 ^ I64Bits)) + MinI64

\* seconds * 1000 does not fit an i64
MillisOverflow(seconds) == seconds * 1000 < MinI64 \/ seconds * 1000 > MaxI64

\* commit.time().seconds() * 1000, as a build without overflow checks
\* computes it
commit_time_to_millis(seconds) == WrapI64(seconds * 1000)

-----------------------------------------------------------------------------
(* normalize_paths *)

\* faulty variant: the path taken as it is written, never canonicalized
AbsoluteLexical(path) == path.lexical

\* path.canonicalize().ok().unwrap_or_else(|| path.to_path_buf()) for an
\* absolute path, the same on root.join(path) for a relative one
Absolute(path) ==
    IF IsSome(path.canonical) THEN Unwrap(path.canonical) ELSE path.lexical

\* faulty variant: the loop over the input paths left after its first iteration
normalize_paths_first_only(ps) ==
    IF ps = <<>> THEN {}
    ELSE LET absolute == Absolute(Head(ps))
         IN  IF absolute.under_root THEN {absolute.rel} ELSE {}

\* faulty variant: the paths deduplicated as they are written, before their
\* root-relative form is taken
normalize_paths_by_text(ps) ==
    {ps[i].text : i \in {j \in 1..Len(ps) : Absolute(ps[j]).under_root}}

\* the HashSet of the root-relative forms of the paths under the root
RECURSIVE normalize_paths(_)
normalize_paths(ps) ==
    IF ps = <<>> THEN {}
    ELSE LET absolute == Absolute(Head(ps))
             rest == normalize_paths(Tail(ps))
         IN  IF absolute.under_root THEN rest \cup {absolute.rel} ELSE rest

-----------------------------------------------------------------------------
(* build_cache *)

PathTimesDefault == [addition |-> None, last_change |-> None]

\* faulty variant: Delta::Modified counted as an introduction too
IsIntroductionOrModified(status) ==
    status \in {"Added", "Renamed", "Copied", "Modified"}

\* matches!(status, Delta::Added | Delta::Renamed | Delta::Copied)
\* faulty variant: Delta::Deleted counted as an introduction of the path
IsIntroductionOrDeleted(status) ==
    status \in {"Added", "Renamed", "Copied", "Deleted"}

\* matches!(delta.status(), Delta::Added | Delta::Renamed | Delta::Copied)
IsIntroduction(status) == status \in {"Added", "Renamed", "Copied"}

\* faulty variant: the addition test written as the `else` of the last_change test
ProcessDeltaElseIf(st, delta, time) ==
    LET path == delta.path IN
    IF path \notin DOMAIN st.times THEN st
    ELSE IF path \in st.pending_changes /\ st.times[path].last_change = None
    THEN [st EXCEPT !.times[path].last_change = Some(time),
                    !.pending_changes = @ \ {path}]
    ELSE IF /\ path \in st.pending_additions
            /\ delta.status \in {"Added", "Renamed", "Copied"}
            /\ st.times[path].addition = None
    THEN [st EXCEPT !.times[path].addition = Some(time),
                    !.pending_additions = @ \ {path}]
    ELSE st

\* faulty variant: updated.last_change is never set, so a path whose last_change
\* was written stays in pending_changes
ProcessDeltaKeepsPending(st, delta, time) ==
    LET path == delta.path IN
    IF path \notin DOMAIN st.times THEN st
    ELSE
        LET t1 == IF path \in st.pending_changes /\ st.times[path].last_change = None
                  THEN [st.times EXCEPT ![path].last_change = Some(time)]
                  ELSE st.times
            upd_addition ==
                /\ path \in st.pending_additions
                /\ delta.status \in {"Added", "Renamed", "Copied"}
                /\ t1[path].addition = None
        IN  [times |-> IF upd_addition
                       THEN [t1 EXCEPT ![path].addition = Some(time)] ELSE t1,
             pending_changes |-> st.pending_changes,
             pending_additions |->
                 IF upd_addition THEN st.pending_additions \ {path}
                 ELSE st.pending_additions]

\* faulty variant: times.entry(path).or_default() in place of the
\* contains_key test and get_mut
ProcessDeltaInsertsKey(st, delta, time) ==
    LET path == delta.path
        known == path \in DOMAIN st.times
        times0 == IF known THEN st.times
                  ELSE st.times @@ (path :> PathTimesDefault)
        upd_last_change ==
            (~known \/ path \in st.pending_changes) /\ times0[path].last_change = None
        t1 == IF upd_last_change
              THEN [times0 EXCEPT ![path].last_change = Some(time)]
              ELSE times0
        upd_addition ==
            /\ (~known \/ path \in st.pending_additions)
            /\ IsIntroduction(delta.status)
            /\ t1[path].addition = None
        t2 == IF upd_addition
              THEN [t1 EXCEPT ![path].addition = Some(time)]
              ELSE t1
    IN  [times |-> t2,
         pending_changes |->
             IF upd_last_change THEN st.pending_changes \ {path}
             ELSE st.pending_changes,
         pending_additions |->
             IF upd_addition THEN st.pending_additions \ {path}
             ELSE st.pending_additions]

\* faulty variant: last_change written only by a delta that is no introduction
ProcessDeltaChangeOnModify(st, delta, time) ==
    LET path == delta.path IN
    IF path \notin DOMAIN st.times THEN st
    ELSE
        LET upd_last_change ==
                /\ path \in st.pending_changes
                /\ ~IsIntroduction(delta.status)
                /\ st.times[path].last_change = None
            t1 == IF upd_last_change
                  THEN [st.times EXCEPT ![path].last_change = Some(time)]
                  ELSE st.times
            upd_addition ==
                /\ path \in st.pending_additions
                /\ IsIntroduction(delta.status)
                /\ t1[path].addition = None
            t2 == IF upd_addition
                  THEN [t1 EXCEPT ![path].addition = Some(time)]
                  ELSE t1
        IN  [times |-> t2,
             pending_changes |->
                 IF upd_last_change THEN st.pending_changes \ {path}
                 ELSE st.pending_changes,
             pending_additions |->
                 IF upd_addition THEN st.pending_additions \ {path}
                 ELSE st.pending_additions]

\* faulty variant: last_change written by every delta of a target path
ProcessDeltaOverwrites(st, delta, time) ==
    LET path == delta.path IN
    IF path \notin DOMAIN st.times THEN st
    ELSE
        LET t1 == [st.times EXCEPT ![path].last_change = Some(time)]
            upd_addition ==
                /\ path \in st.pending_additions
                /\ IsIntroduction(delta.status)
                /\ t1[path].addition = None
            t2 == IF upd_addition
                  THEN [t1 EXCEPT ![path].addition = Some(time)]
                  ELSE t1
        IN  [times |-> t2,
             pending_changes |-> st.pending_changes \ {path},
             pending_additions |->
                 IF upd_addition THEN st.pending_additions \ {path}
                 ELSE st.pending_additions]

\* the body of `for delta in diff.deltas()`, on st = the three collections
ProcessDelta(st, delta, time) ==
    LET path == delta.path IN
    IF path \notin DOMAIN st.times THEN st
    ELSE
        LET upd_last_change ==
                path \in st.pending_changes /\ st.times[path].last_change = None
            t1 == IF upd_last_change
                  THEN [st.times EXCEPT ![path].last_change = Some(time)]
                  ELSE st.times
            upd_addition ==
                /\ path \in st.pending_additions
                /\ IsIntroduction(delta.status)
                /\ t1[path].addition = None
            t2 == IF upd_addition
                  THEN [t1 EXCEPT ![path].addition = Some(time)]
                  ELSE t1
        IN  [times |-> t2,
             pending_changes |->
                 IF upd_last_change THEN st.pending_changes \ {path}
                 ELSE st.pending_changes,
             pending_additions |->
                 IF upd_addition THEN st.pending_additions \ {path}
                 ELSE st.pending_additions]

RECURSIVE ProcessDeltas(_, _, _)
ProcessDeltas(st, deltas, time) ==
    IF deltas = {} THEN st
    ELSE LET d == CHOOSE x \in deltas : TRUE
         IN  ProcessDeltas(ProcessDelta(st, d, time), deltas \ {d}, time)

\* the body of `for oid in revwalk` up to the early-exit test
ProcessCommit(st, r, c) ==
    IF r.fault[c] \in {"oid", "commit", "tree", "diff"} THEN st
    ELSE ProcessDeltas(st, Deltas(r, c), commit_time_to_millis(r.time[c]))

\* faulty variant: || in place of &&
EarlyExitEither(st) == st.pending_additions = {} \/ st.pending_changes = {}

\* faulty variant: the test left out, the walk always runs to its end
EarlyExitNever(st) == FALSE

\* faulty variant: the walk left as soon as one path has both its values
EarlyExitAnyResolved(st) ==
    \E p \in DOMAIN st.times :
        p \notin st.pending_additions /\ p \notin st.pending_changes

\* if pending_additions.is_empty() && pending_changes.is_empty() { break; }
EarlyExit(st) == st.pending_additions = {} /\ st.pending_changes = {}

\* faulty variant: Sort::TIME | Sort::REVERSE: oldest commit time first
RevwalkNextOldestFirst(r, done) ==
    {c \in Reachable(r) \ done :
        \A d \in Reachable(r) \ done : r.time[c] <= r.time[d]}

\* Sort::TIME: the commits the revwalk may yield next.  With a sorting mode
\* set the revwalk first collects every commit reachable from the pushed
\* HEAD and then yields them by commit time, newest first, whatever their
\* ancestry; commits of equal time come in an order the caller does not
\* control.
\* faulty variant: a revwalk that yields its newest commit again and again
RevwalkNextRepeats(r, done) ==
    {c \in Reachable(r) : \A d \in Reachable(r) : r.time[d] <= r.time[c]}

\* A failed push_head leaves the revwalk without a starting point: it yields
\* nothing.  A failed set_sorting leaves it unsorted: it yields the reachable
\* commits in an order of its own.
RevwalkNext(r, done) ==
    IF r.setup = "push_head" THEN {}
    ELSE IF r.setup = "sorting" THEN Reachable(r) \ done
    ELSE {c \in Reachable(r) \ done :
             \A d \in Reachable(r) \ done : r.time[d] <= r.time[c]}


BuildStart ==
    /\ pc = "start"
    /\ LET rel_paths == normalize_paths(paths) IN
        /\ times' = [p \in rel_paths |-> PathTimesDefault]
        /\ IF rel_paths = {}
           THEN /\ pc' = "done"
                /\ UNCHANGED <<pending_additions, pending_changes>>
           ELSE /\ pending_additions' = rel_paths
                /\ pending_changes' = rel_paths
                /\ pc' = IF repo.setup = "revwalk" THEN "done" ELSE "walk"
    /\ UNCHANGED <<repo, paths, walked, prev_build, queries, resolveVars>>

\* one iteration of `for oid in revwalk`, the early-exit test included
WalkStep ==
    /\ pc = "walk"
    /\ \E c \in RevwalkNext(repo, walked) :
        LET st == ProcessCommit(
                      [times |-> times,
                       pending_additions |-> pending_additions,
                       pending_changes |-> pending_changes], repo, c)
        IN  /\ times' = st.times
            /\ pending_additions' = st.pending_additions
            /\ pending_changes' = st.pending_changes
            /\ walked' = walked \cup {c}
            /\ pc' = IF EarlyExit(st) THEN "done" ELSE "walk"
    /\ UNCHANGED <<repo, paths, prev_build, queries, resolveVars>>

\* the revwalk is exhausted: the loop ends and the cache is returned
WalkEnd ==
    /\ pc = "walk"
    /\ RevwalkNext(repo, walked) = {}
    /\ pc' = "done"
    /\ UNCHANGED <<buildVars, queries, resolveVars>>

\* the cache is built again from the unchanged repository, with the same
\* input paths in any order, with or without duplicates
Rebuild ==
    /\ pc = "done"
    /\ prev_build = None
    /\ prev_build' = Some([paths |-> paths, times |-> times])
    /\ \E ps \in SeqsUpTo(InputPaths, MaxPaths) :
        /\ Elems(ps) = Elems(paths)
        /\ paths' = ps
    /\ pc' = "start"
    /\ times' = <<>>
    /\ pending_additions' = {}
    /\ pending_changes' = {}
    /\ walked' = {}
    /\ UNCHANGED <<repo, queries, resolveVars>>

NoRepository ==
    [time |-> <<>>, parent1 |-> <<>>, parent2 |-> <<>>, tree |-> <<>>,
     fault |-> <<>>, setup |-> "ok"]
NoDoc == <<>>

Init ==
    /\ repo \in Repositories
    /\ paths \in SeqsUpTo(InputPaths, MaxPaths)
    /\ pc = "start"
    /\ times = <<>>
    /\ pending_additions = {}
    /\ pending_changes = {}
    /\ walked = {}
    /\ prev_build = None
    /\ queries = <<>>
    /\ discovered = FALSE
    /\ git_repo = FALSE
    /\ git_cache = None
    /\ doc = NoDoc
    /\ spec_doc = None
    /\ specs = <<>>

Next == BuildStart \/ WalkStep \/ WalkEnd

Spec == Init /\ [][Next]_vars

-----------------------------------------------------------------------------
(* build_cache on a repository in which something fails: the histories     *)
(* without merges and without clock skew, with up to MaxFaults commits     *)
(* that fail to load, or with a failing step of the revwalk's setup.       *)

MaxFaults == 1

FaultKinds == {"oid", "commit", "tree", "parent", "diff"}

FaultChoices ==
    {f \in [Commits -> {"none"} \cup FaultKinds] :
        Cardinality({c \in Commits : f[c] /= "none"}) <= MaxFaults}

SetupFailures == {"revwalk", "sorting", "push_head"}

LinearHistories ==
    {r \in Repositories :
        \A c \in Commits :
            /\ r.parent1[c] = c - 1
            /\ r.parent2[c] = 0
            /\ c > 1 => r.time[c - 1] <= r.time[c]}

FaultyRepositories ==
    {[r EXCEPT !.fault = f] : r \in LinearHistories, f \in FaultChoices}
    \cup {[r EXCEPT !.setup = s] : r \in LinearHistories, s \in SetupFailures}

InitFaulty ==
    /\ repo \in FaultyRepositories
    /\ paths \in SeqsUpTo(InputPaths, MaxPaths)
    /\ pc = "start"
    /\ times = <<>>
    /\ pending_additions = {}
    /\ pending_changes = {}
    /\ walked = {}
    /\ prev_build = None
    /\ queries = <<>>
    /\ discovered = FALSE
    /\ git_repo = FALSE
    /\ git_cache = None
    /\ doc = NoDoc
    /\ spec_doc = None
    /\ specs = <<>>

SpecFaulty == InitFaulty /\ [][Next]_vars

\* The same for the histories of one file.  build_cache runs from its start
\* to its return without waiting for anything: its steps are weakly fair.
InitTerminate ==
    /\ InitFaulty
    /\ \A c \in Commits : repo.tree[c]["b.md"] = 0

SpecTerminate == InitTerminate /\ [][Next]_vars /\ WF_vars(Next)

\* build_cache on the histories of a.md with one commit time, called with
\* paths of every kind: of existing and of missing files, in and outside the
\* root, symbolic links
InitNormalize ==
    /\ repo \in {r \in LinearHistories :
                    \A c \in Commits : r.time[c] = 1 /\ r.tree[c]["b.md"] = 0}
    /\ paths \in SeqsUpTo(NormalizeInputs, MaxPaths)
    /\ pc = "start"
    /\ times = <<>>
    /\ pending_additions = {}
    /\ pending_changes = {}
    /\ walked = {}
    /\ prev_build = None
    /\ queries = <<>>
    /\ discovered = FALSE
    /\ git_repo = FALSE
    /\ git_cache = None
    /\ doc = NoDoc
    /\ spec_doc = None
    /\ specs = <<>>

SpecNormalize == InitNormalize /\ [][Next]_vars

\* build_cache on histories whose commits carry any time an i64 holds.  A
\* build with overflow checks panics in commit_time_to_millis where a build
\* without them goes on with the wrapped value.
AdversarialSeconds == {1, MaxI64 \div 1000, MaxI64 \div 1000 + 1, MaxI64, MinI64}

OverflowRepositories ==
    {[r EXCEPT !.time = tm] :
        r \in {x \in LinearHistories :
                  \A c \in Commits : x.time[c] = 1 /\ x.tree[c]["b.md"] = 0},
        tm \in [Commits -> AdversarialSeconds]}

\* commit_time_to_millis(&commit) panics: attempt to multiply with overflow
WalkPanic ==
    /\ pc = "walk"
    /\ \E c \in RevwalkNext(repo, walked) :
        /\ repo.fault[c] \notin {"oid", "commit"}
        /\ MillisOverflow(repo.time[c])
        /\ walked' = walked \cup {c}
    /\ pc' = "panic"
    /\ UNCHANGED <<repo, paths, times, pending_additions, pending_changes,
                   prev_build, queries, resolveVars>>

InitOverflow ==
    /\ repo \in OverflowRepositories
    /\ paths \in SeqsUpTo(InputPaths, MaxPaths)
    /\ pc = "start"
    /\ times = <<>>
    /\ pending_additions = {}
    /\ pending_changes = {}
    /\ walked = {}
    /\ prev_build = None
    /\ queries = <<>>
    /\ discovered = FALSE
    /\ git_repo = FALSE
    /\ git_cache = None
    /\ doc = NoDoc
    /\ spec_doc = None
    /\ specs = <<>>

NextOverflow == Next \/ WalkPanic

SpecOverflow == InitOverflow /\ [][NextOverflow]_vars

\* the same repositories and input paths, each built twice
NextRebuild == BuildStart \/ WalkStep \/ WalkEnd \/ Rebuild

SpecRebuild == Init /\ [][NextRebuild]_vars

-----------------------------------------------------------------------------
(* GitTimestampCache::latest_addition, latest_change *)

\* .filter_map(|path| self.times.get(path)).filter_map(|times| times.addition)
RECURSIVE AdditionValues(_, _)
AdditionValues(cache, ps) ==
    IF ps = <<>> THEN <<>>
    ELSE LET path == Head(ps)
             rest == AdditionValues(cache, Tail(ps))
         IN  IF path.text \in DOMAIN cache /\ IsSome(cache[path.text].addition)
             THEN <<Unwrap(cache[path.text].addition)>> \o rest
             ELSE rest

\* .filter_map(|path| self.times.get(path)).filter_map(|times| times.last_change)
RECURSIVE ChangeValues(_, _)
ChangeValues(cache, ps) ==
    IF ps = <<>> THEN <<>>
    ELSE LET path == Head(ps)
             rest == ChangeValues(cache, Tail(ps))
         IN  IF path.text \in DOMAIN cache /\ IsSome(cache[path.text].last_change)
             THEN <<Unwrap(cache[path.text].last_change)>> \o rest
             ELSE rest

\* faulty variant: Iterator::min
RECURSIVE IterMin(_)
IterMin(s) ==
    IF s = <<>> THEN None
    ELSE LET m == IterMin(Tail(s))
         IN  IF IsSome(m) /\ Unwrap(m) < Head(s) THEN m ELSE Some(Head(s))

\* Iterator::max
RECURSIVE IterMax(_)
IterMax(s) ==
    IF s = <<>> THEN None
    ELSE LET m == IterMax(Tail(s))
         IN  IF IsSome(m) /\ Unwrap(m) >= Head(s) THEN m ELSE Some(Head(s))

\* faulty variant: the first value found instead of the greatest
latest_addition_first(cache, ps) ==
    LET vs == AdditionValues(cache, ps)
    IN  IF vs = <<>> THEN None ELSE Some(Head(vs))

latest_addition(cache, ps) == IterMax(AdditionValues(cache, ps))

latest_change(cache, ps) == IterMax(ChangeValues(cache, ps))

\* first_commit_timestamp and last_commit_timestamp: the cache built from
\* paths is queried with the same paths
QueryBuilt ==
    /\ pc = "done"
    /\ queries' = Append(queries,
                         [paths |-> paths,
                          latest_addition |-> latest_addition(times, paths),
                          latest_change |-> latest_change(times, paths)])
    /\ pc' = "queried"
    /\ UNCHANGED <<buildVars, resolveVars>>

InitTimestamp ==
    /\ repo \in LinearHistories
    /\ paths \in SeqsUpTo(InputPaths, MaxPaths)
    /\ pc = "start"
    /\ times = <<>>
    /\ pending_additions = {}
    /\ pending_changes = {}
    /\ walked = {}
    /\ prev_build = None
    /\ queries = <<>>
    /\ discovered = FALSE
    /\ git_repo = FALSE
    /\ git_cache = None
    /\ doc = NoDoc
    /\ spec_doc = None
    /\ specs = <<>>

NextTimestamp == Next \/ QueryBuilt

SpecTimestamp == InitTimestamp /\ [][NextTimestamp]_vars

\* the timestamps a commit can carry, in milliseconds
OptMillis == {None} \cup {Some(commit_time_to_millis(t)) : t \in 1..MaxTime}

\* the PathTimes build_cache can return: a path's addition is recorded by a
\* commit that also counts as a change of it, at or after which its last
\* change lies
PathTimesValues ==
    {pt \in [addition : OptMillis, last_change : OptMillis] :
        IsSome(pt.addition) =>
            IsSome(pt.last_change) /\ Unwrap(pt.addition) <= Unwrap(pt.last_change)}

Caches == UNION {[keys -> PathTimesValues] : keys \in SUBSET Paths}

Query ==
    /\ pc = "query"
    /\ Len(queries) < 2
    /\ \E ps \in SeqsUpTo(QueryPaths, MaxPaths) :
        queries' = Append(queries,
                          [paths |-> ps,
                           latest_addition |-> latest_addition(times, ps),
                           latest_change |-> latest_change(times, ps)])
    /\ UNCHANGED <<buildVars, pc, resolveVars>>

InitQuery ==
    /\ times \in Caches
    /\ pc = "query"
    /\ queries = <<>>
    /\ repo = NoRepository
    /\ paths = <<>>
    /\ pending_additions = {}
    /\ pending_changes = {}
    /\ walked = {}
    /\ prev_build = None
    /\ discovered = FALSE
    /\ git_repo = FALSE
    /\ git_cache = None
    /\ doc = NoDoc
    /\ spec_doc = None
    /\ specs = <<>>

NextQuery == Query

SpecQuery == InitQuery /\ [][NextQuery]_vars

-----------------------------------------------------------------------------
(* load_specs_from_directory: the timestamps of one document *)

\* the relative PathBufs left by path.strip_prefix(repo.workdir())
GitPathBufs == {RelA, RelB}

\* fs::metadata(path): None when it fails, else the created and modified
\* times after system_time_to_millis
FileStats ==
    {None} \cup {Some([created |-> c, modified |-> m]) : c, m \in OptMillis}

PendingSpecs(keys) ==
    {[meta_created |-> mc, meta_updated |-> mu, git_paths |-> gp, stat |-> fs] :
        mc \in OptMillis, mu \in OptMillis,
        gp \in {ps \in SeqsUpTo(GitPathBufs, MaxPaths) :
                   \A i \in 1..Len(ps) : ps[i].text \in keys},
        fs \in FileStats}

\* Utc::now().timestamp_millis()
Nows == {commit_time_to_millis(t) : t \in 1..(MaxTime + 1)}

\* faulty variant: the modified time tried before the created time
file_timestamps_modified_first(stat) ==
    IF stat = None THEN <<None, None>>
    ELSE LET created == Unwrap(stat).created
             modified == Unwrap(stat).modified
         IN  <<Or(modified, created), modified>>

\* fs::metadata(path) Err: (None, None); else (created.or(modified), modified)
file_timestamps(stat) ==
    IF stat = None THEN <<None, None>>
    ELSE LET created == Unwrap(stat).created
             modified == Unwrap(stat).modified
         IN  <<Or(created, modified), modified>>

\* faulty variant: the history value tried before the metadata value
ResolveCreatedGitFirst(meta_created, git_addition, file_created, file_modified) ==
    Or(Or(Or(git_addition, meta_created), file_created), file_modified)

ResolveCreated(meta_created, git_addition, file_created, file_modified) ==
    Or(Or(Or(meta_created, git_addition), file_created), file_modified)

\* faulty variant: the file's modified time tried before the history value
ResolveUpdatedFileFirst(meta_updated, git_change, file_modified, created) ==
    Or(Or(Or(meta_updated, file_modified), git_change), created)

ResolveUpdated(meta_updated, git_change, file_modified, created) ==
    Or(Or(Or(meta_updated, git_change), file_modified), created)

\* faulty variant: created tried before updated
ResolveUpdatedSortCreatedFirst(updated, created, now) ==
    LET key == Or(created, updated)
    IN  IF IsSome(key) THEN [value |-> Unwrap(key), now_called |-> FALSE]
        ELSE [value |-> now, now_called |-> TRUE]

\* updated.or(created).unwrap_or_else(|| Utc::now().timestamp_millis())
ResolveUpdatedSort(updated, created, now) ==
    LET key == Or(updated, created)
    IN  IF IsSome(key) THEN [value |-> Unwrap(key), now_called |-> FALSE]
        ELSE [value |-> now, now_called |-> TRUE]

\* faulty variant: a repository handle returned although none was discovered
open_git_repository_always(found) == TRUE

\* Repository::discover(path).ok()?: nothing without a repository at or above
\* the path, else the handle with its working directory (is_some() here)
open_git_repository(found) == found

\* faulty variant: both history values required
GitManagedBoth(repo_is_some, git_addition, git_change) ==
    repo_is_some /\ (IsSome(git_addition) /\ IsSome(git_change))

\* git_repo.is_some() && (git_addition.is_some() || git_change.is_some())
GitManaged(repo_is_some, git_addition, git_change) ==
    repo_is_some /\ (IsSome(git_addition) \/ IsSome(git_change))

\* open_git_repository(dir), then the cache built once for the paths of all
\* the documents, when there is a repository and there are such paths.
\* times holds the cache from_paths returns for them.
OpenRepo ==
    /\ pc = "open"
    /\ git_repo' = open_git_repository(discovered)
    /\ git_cache' = IF git_repo' /\ DOMAIN times /= {} THEN Some(times) ELSE None
    /\ pc' = "pending"
    /\ UNCHANGED <<buildVars, queries, discovered, doc, spec_doc, specs>>

\* one iteration of `for pending in pending_specs`
ResolveDoc ==
    /\ pc = "pending"
    /\ \E now \in Nows :
        LET git_addition ==
                IF IsSome(git_cache)
                THEN latest_addition(Unwrap(git_cache), doc.git_paths) ELSE None
            git_change ==
                IF IsSome(git_cache)
                THEN latest_change(Unwrap(git_cache), doc.git_paths) ELSE None
            ft == file_timestamps(doc.stat)
            created == ResolveCreated(doc.meta_created, git_addition, ft[1], ft[2])
            updated == ResolveUpdated(doc.meta_updated, git_change, ft[2], created)
            sort == ResolveUpdatedSort(updated, created, now)
        IN  spec_doc' = Some([created |-> created,
                              updated |-> updated,
                              updated_sort |-> sort.value,
                              now_called |-> sort.now_called,
                              git_addition |-> git_addition,
                              git_change |-> git_change,
                              git_managed |->
                                  GitManaged(git_repo, git_addition, git_change)])
    /\ pc' = "resolved"
    /\ UNCHANGED <<buildVars, queries, discovered, git_repo, git_cache, doc, specs>>

\* a directory in a repository or outside of any; git paths are collected
\* for a document only with a repository
InitResolve ==
    /\ discovered \in BOOLEAN
    /\ times \in IF discovered THEN Caches ELSE {<<>>}
    /\ doc \in PendingSpecs(DOMAIN times)
    /\ git_repo = FALSE
    /\ git_cache = None
    /\ spec_doc = None
    /\ specs = <<>>
    /\ pc = "open"
    /\ repo = NoRepository
    /\ paths = <<>>
    /\ pending_additions = {}
    /\ pending_changes = {}
    /\ walked = {}
    /\ prev_build = None
    /\ queries = <<>>

NextResolve == OpenRepo \/ ResolveDoc

SpecResolve == InitResolve /\ [][NextResolve]_vars

-----------------------------------------------------------------------------
(* load_and_sort_specs and run_build: the order of the documents *)

MaxSpecs == 3
MaxIds == 2

\* the ids (String), numbered in the order of String::cmp
SpecIds == 1..MaxIds

\* a SpecDocument, as far as the sort reads it
SpecDocuments == [id : SpecIds, updated_sort : Nows]

\* Ord::cmp on i64 and on String
Cmp(x, y) == IF x < y THEN "Less" ELSE IF x = y THEN "Equal" ELSE "Greater"

\* faulty variant: the order by updated_sort alone
SpecOrderingNoId(a, b) == Cmp(b.updated_sort, a.updated_sort)

\* |a, b| b.updated_sort.cmp(&a.updated_sort).then_with(|| b.id.cmp(&a.id))
SpecOrdering(a, b) ==
    IF Cmp(b.updated_sort, a.updated_sort) /= "Equal"
    THEN Cmp(b.updated_sort, a.updated_sort)
    ELSE Cmp(b.id, a.id)

\* x put into the sorted list after the elements that are not greater
RECURSIVE InsertSorted(_, _)
InsertSorted(x, sorted) ==
    IF sorted = <<>> THEN <<x>>
    ELSE IF SpecOrdering(Head(sorted), x) = "Greater"
         THEN <<x>> \o sorted
         ELSE <<Head(sorted)>> \o InsertSorted(x, Tail(sorted))

\* slice::sort_by with SpecOrdering: a stable sort
RECURSIVE sort_by(_)
sort_by(v) ==
    IF v = <<>> THEN <<>>
    ELSE InsertSorted(v[Len(v)], sort_by(SubSeq(v, 1, Len(v) - 1)))

\* load_and_sort_specs: load_result.specs.sort_by(..)
SortLoaded ==
    /\ pc = "loaded"
    /\ specs' = sort_by(specs)
    /\ pc' = "sorted"
    /\ UNCHANGED <<buildVars, queries, discovered, git_repo, git_cache, doc, spec_doc>>

\* run_build: augment_with_pull_requests pushes documents, then
\* state.specs.sort_by(..)
AugmentAndSort ==
    /\ pc = "sorted"
    /\ \E pushed \in SeqsUpTo(SpecDocuments, MaxSpecs - Len(specs)) :
        specs' = sort_by(specs \o pushed)
    /\ pc' = "built"
    /\ UNCHANGED <<buildVars, queries, discovered, git_repo, git_cache, doc, spec_doc>>

\* the documents in the order load_specs found them
InitSort ==
    /\ specs \in SeqsUpTo(SpecDocuments, MaxSpecs)
    /\ pc = "loaded"
    /\ repo = NoRepository
    /\ paths = <<>>
    /\ times = <<>>
    /\ pending_additions = {}
    /\ pending_changes = {}
    /\ walked = {}
    /\ prev_build = None
    /\ queries = <<>>
    /\ discovered = FALSE
    /\ git_repo = FALSE
    /\ git_cache = None
    /\ doc = NoDoc
    /\ spec_doc = None

NextSort == SortLoaded \/ AugmentAndSort

SpecSort == InitSort /\ [][NextSort]_vars

-----------------------------------------------------------------------------
(* What a history says about a path, read off the trees: commit c touches  *)
(* p when p's blob differs from the one in c's first parent (the empty     *)
(* tree for a root commit), and introduces p when p was absent there.      *)

BlobBefore(c, p) ==
    IF repo.parent1[c] = 0 THEN 0 ELSE repo.tree[repo.parent1[c]][p]

TouchingCommits(p) ==
    {c \in Reachable(repo) : repo.tree[c][p] /= BlobBefore(c, p)}

IntroducingCommits(p) ==
    {c \in Reachable(repo) : BlobBefore(c, p) = 0 /\ repo.tree[c][p] /= 0}

DistinctTimes(C) == \A c, d \in C : c /= d => repo.time[c] /= repo.time[d]

NewestMillis(C) == commit_time_to_millis(SetMax({repo.time[c] : c \in C}))

EarliestMillis(C) == commit_time_to_millis(SetMin({repo.time[c] : c \in C}))

-----------------------------------------------------------------------------
(* Claims on build_cache (Spec, SpecRebuild) *)

\* C1: for every target path P touched by commits of pairwise different
\* commit times, all reachable from HEAD, the built cache has last_change(P)
\* equal to the time of the most recent of them.
C1_LastChangeIsNewestTouch ==
    pc = "done" =>
        \A p \in DOMAIN times :
            (TouchingCommits(p) /= {} /\ DistinctTimes(TouchingCommits(p))) =>
                times[p].last_change = Some(NewestMillis(TouchingCommits(p)))

\* a target path touched by two commits of different times, the older of
\* them not the last one the walk met
C1_Witness ==
    /\ pc = "done"
    /\ \E p \in DOMAIN times :
        /\ Cardinality(TouchingCommits(p)) >= 2
        /\ DistinctTimes(TouchingCommits(p))
        /\ times[p].last_change = Some(NewestMillis(TouchingCommits(p)))
        /\ times[p].last_change /= Some(EarliestMillis(TouchingCommits(p)))

\* C2 (as claimed): addition(P) is the time of the EARLIEST commit at which P
\* is newly introduced, also when P is added, deleted and added again.
C2_AdditionIsEarliestIntroduction ==
    pc = "done" =>
        \A p \in DOMAIN times :
            IntroducingCommits(p) /= {} =>
                times[p].addition = Some(EarliestMillis(IntroducingCommits(p)))

\* C2 (amended): addition(P) is the time of the commit with the LATEST commit
\* time among those at which P is newly introduced, and None when no
\* reachable commit introduces P.
C2_AdditionIsNewestIntroduction ==
    pc = "done" =>
        \A p \in DOMAIN times :
            times[p].addition =
                IF IntroducingCommits(p) = {} THEN None
                ELSE Some(NewestMillis(IntroducingCommits(p)))

\* a target path introduced by two commits of different times
C2_Witness ==
    /\ pc = "done"
    /\ \E p \in DOMAIN times :
        /\ Cardinality(IntroducingCommits(p)) >= 2
        /\ DistinctTimes(IntroducingCommits(p))
        /\ times[p].addition = Some(NewestMillis(IntroducingCommits(p)))

\* C3: a target path added by exactly one commit and touched by no other has
\* addition and last_change both present, equal, and equal to that commit's
\* time.
C3_AddedOnceAdditionEqualsLastChange ==
    pc = "done" =>
        \A p \in DOMAIN times :
            (/\ Cardinality(IntroducingCommits(p)) = 1
             /\ TouchingCommits(p) = IntroducingCommits(p)) =>
                /\ IsSome(times[p].addition)
                /\ times[p].addition = times[p].last_change
                /\ times[p].addition = Some(NewestMillis(IntroducingCommits(p)))

\* a target path whose only event is its addition, resolved by the walk
C3_Witness ==
    /\ pc = "done"
    /\ \E p \in DOMAIN times :
        /\ Cardinality(IntroducingCommits(p)) = 1
        /\ TouchingCommits(p) = IntroducingCommits(p)
        /\ IntroducingCommits(p) \subseteq walked
        /\ IsSome(times[p].addition)
        /\ times[p].addition = times[p].last_change

\* C4: a target path no reachable commit touches has addition and last_change
\* None after the build, and a field still pending when the build returns is
\* None.
C4_UntouchedAndPendingAreNone ==
    pc = "done" =>
        \A p \in DOMAIN times :
            /\ TouchingCommits(p) = {} =>
                   times[p].addition = None /\ times[p].last_change = None
            /\ p \in pending_additions => times[p].addition = None
            /\ p \in pending_changes => times[p].last_change = None

\* the history is exhausted with an untouched target path, next to a target
\* path that some commit touched
C4_Witness ==
    /\ pc = "done"
    /\ walked = Reachable(repo)
    /\ \E p, q \in DOMAIN times :
        /\ TouchingCommits(p) = {}
        /\ times[p] = PathTimesDefault
        /\ p \in pending_additions /\ p \in pending_changes
        /\ TouchingCommits(q) /= {}
        /\ IsSome(times[q].last_change)

\* C7: a second build from the unchanged repository with the same set of
\* input paths, in any order and with or without duplicates, returns the
\* same map as the first.
C7_RebuildIsIdentical ==
    (pc = "done" /\ IsSome(prev_build)) => times = Unwrap(prev_build).times

\* a second build finished on a reordered or duplicated input list, with a
\* resolved path and two commits of equal time in the walk
C7_Witness ==
    /\ pc = "done"
    /\ IsSome(prev_build)
    /\ paths /= Unwrap(prev_build).paths
    /\ \E p \in DOMAIN times : IsSome(times[p].addition)
    /\ \E c, d \in walked : c /= d /\ repo.time[c] = repo.time[d]

-----------------------------------------------------------------------------
(* Claims on the cache queries (SpecQuery) *)

QueriedKeys(ps) == {ps[i].text : i \in 1..Len(ps)} \cap DOMAIN times

PresentAdditions(ps) ==
    {Unwrap(times[k].addition) :
        k \in {x \in QueriedKeys(ps) : IsSome(times[x].addition)}}

PresentChanges(ps) ==
    {Unwrap(times[k].last_change) :
        k \in {x \in QueriedKeys(ps) : IsSome(times[x].last_change)}}

MaxOrNone(S) == IF S = {} THEN None ELSE Some(SetMax(S))

\* C5: latest_addition(subset) is the maximum of the addition values that are
\* Some among the subset's paths and None if there is none (the empty subset
\* and paths absent from the cache contribute nothing); latest_change is the
\* same reduction over last_change.
C5_LatestIsMaxOfPresent ==
    \A i \in 1..Len(queries) :
        /\ queries[i].latest_addition = MaxOrNone(PresentAdditions(queries[i].paths))
        /\ queries[i].latest_change = MaxOrNone(PresentChanges(queries[i].paths))

\* a query over two paths with different additions, the smaller one first,
\* and a query with a path that is no key of the cache
C5_Witness ==
    /\ Len(queries) = 2
    /\ Len(queries[1].paths) = 2
    /\ Cardinality(PresentAdditions(queries[1].paths)) = 2
    /\ queries[1].paths[1].text \in DOMAIN times
    /\ times[queries[1].paths[1].text].addition /= queries[1].latest_addition
    /\ queries[1].latest_addition = MaxOrNone(PresentAdditions(queries[1].paths))
    /\ \E i \in 1..Len(queries[2].paths) : queries[2].paths[i].text \notin DOMAIN times
    /\ queries[2].latest_addition = None

\* C6: for one cache and path sets S1 subset-of S2, if latest_addition(S1) is
\* defined then latest_addition(S2) is defined and not smaller; the same for
\* latest_change.
C6_SupersetQueryNotSmaller ==
    (Len(queries) = 2 /\ Elems(queries[1].paths) \subseteq Elems(queries[2].paths)) =>
        /\ IsSome(queries[1].latest_addition) =>
               /\ IsSome(queries[2].latest_addition)
               /\ Unwrap(queries[2].latest_addition) >= Unwrap(queries[1].latest_addition)
        /\ IsSome(queries[1].latest_change) =>
               /\ IsSome(queries[2].latest_change)
               /\ Unwrap(queries[2].latest_change) >= Unwrap(queries[1].latest_change)

\* a query with a defined result and then a strict superset of it, whose
\* added path raises latest_addition
C6_Witness ==
    /\ Len(queries) = 2
    /\ Elems(queries[1].paths) \subseteq Elems(queries[2].paths)
    /\ Elems(queries[1].paths) /= Elems(queries[2].paths)
    /\ IsSome(queries[1].latest_addition)
    /\ IsSome(queries[2].latest_addition)
    /\ Unwrap(queries[2].latest_addition) > Unwrap(queries[1].latest_addition)
    /\ IsSome(queries[1].latest_change)
    /\ IsSome(queries[2].latest_change)

-----------------------------------------------------------------------------
(* Claims on the resolver (SpecResolve) *)

RawCreated == IF doc.stat = None THEN None ELSE Unwrap(doc.stat).created
RawModified == IF doc.stat = None THEN None ELSE Unwrap(doc.stat).modified

RECURSIVE FirstPresent(_)
FirstPresent(opts) ==
    IF opts = <<>> THEN None
    ELSE IF IsSome(Head(opts)) THEN Head(opts)
    ELSE FirstPresent(Tail(opts))

\* C8: created is the first present value in the order metadata.created,
\* cache.latest_addition(doc_paths), filesystem created, filesystem modified;
\* an explicit metadata created wins even when the cache and filesystem
\* values exist and disagree; created is None only when all four are absent.
C8_CreatedPrecedence ==
    pc = "resolved" =>
        LET d == Unwrap(spec_doc)
            sources == <<doc.meta_created, d.git_addition, RawCreated, RawModified>>
        IN  /\ d.created = FirstPresent(sources)
            /\ IsSome(doc.meta_created) => d.created = doc.meta_created
            /\ d.created = None <=> \A i \in 1..4 : sources[i] = None
            /\ IsSome(git_cache) =>
                   d.git_addition = MaxOrNone(
                       {Unwrap(Unwrap(git_cache)[p.text].addition) :
                           p \in {x \in Elems(doc.git_paths) :
                                     IsSome(Unwrap(git_cache)[x.text].addition)}})
            /\ git_cache = None => d.git_addition = None

\* metadata, history and filesystem all give a created value, no two the same
C8_Witness ==
    /\ pc = "resolved"
    /\ IsSome(doc.meta_created)
    /\ IsSome(Unwrap(spec_doc).git_addition)
    /\ IsSome(RawCreated)
    /\ doc.meta_created /= Unwrap(spec_doc).git_addition
    /\ doc.meta_created /= RawCreated
    /\ Unwrap(spec_doc).created = doc.meta_created

\* C9: updated is the first present value in the order metadata.updated,
\* cache.latest_change(doc_paths), filesystem modified, the resolved created;
\* an explicit metadata updated always wins.
C9_UpdatedPrecedence ==
    pc = "resolved" =>
        LET d == Unwrap(spec_doc)
            sources == <<doc.meta_updated, d.git_change, RawModified, d.created>>
        IN  /\ d.updated = FirstPresent(sources)
            /\ IsSome(doc.meta_updated) => d.updated = doc.meta_updated
            /\ IsSome(git_cache) =>
                   d.git_change = MaxOrNone(
                       {Unwrap(Unwrap(git_cache)[p.text].last_change) :
                           p \in {x \in Elems(doc.git_paths) :
                                     IsSome(Unwrap(git_cache)[x.text].last_change)}})
            /\ git_cache = None => d.git_change = None

\* no metadata updated; history and filesystem give different values and the
\* history value is taken
C9_Witness ==
    /\ pc = "resolved"
    /\ doc.meta_updated = None
    /\ IsSome(Unwrap(spec_doc).git_change)
    /\ IsSome(RawModified)
    /\ Unwrap(spec_doc).git_change /= RawModified
    /\ Unwrap(spec_doc).updated = Unwrap(spec_doc).git_change

AllSourcesAbsent ==
    /\ doc.meta_created = None
    /\ doc.meta_updated = None
    /\ Unwrap(spec_doc).git_addition = None
    /\ Unwrap(spec_doc).git_change = None
    /\ RawCreated = None
    /\ RawModified = None

\* C10: updated_sort is always defined: it is updated when updated is present,
\* otherwise created when created is present, and now() is used only when
\* metadata, cache and filesystem stat supply no value at all.
C10_UpdatedSortDefined ==
    pc = "resolved" =>
        LET d == Unwrap(spec_doc)
        IN  /\ d.updated_sort \in Int
            /\ IsSome(d.updated) => d.updated_sort = Unwrap(d.updated)
            /\ (d.updated = None /\ IsSome(d.created)) =>
                   d.updated_sort = Unwrap(d.created)
            /\ d.now_called => (AllSourcesAbsent /\ d.updated_sort \in Nows)
            /\ ~d.now_called => Some(d.updated_sort) \in {d.updated, d.created}

\* a document whose updated and created differ, sorted by updated
C10_Witness ==
    /\ pc = "resolved"
    /\ IsSome(Unwrap(spec_doc).updated)
    /\ IsSome(Unwrap(spec_doc).created)
    /\ Unwrap(spec_doc).updated /= Unwrap(spec_doc).created
    /\ ~Unwrap(spec_doc).now_called
    /\ Unwrap(spec_doc).updated_sort = Unwrap(Unwrap(spec_doc).updated)

\* a document without metadata dates and without a value from the history
NoDatesNoHistory ==
    /\ doc.meta_created = None
    /\ doc.meta_updated = None
    /\ Unwrap(spec_doc).git_addition = None
    /\ Unwrap(spec_doc).git_change = None

\* C11 (as stated): for a document with no metadata dates and no history
\* signal whose file stat is readable, created is the stat's created time
\* (its modified time when no creation time is reported) and updated is the
\* stat's modified time, both present; updated >= created whenever the
\* modified time is not earlier than the creation time.
C11_StatTimesBothPresent ==
    (pc = "resolved" /\ NoDatesNoHistory /\ doc.stat /= None) =>
        LET d == Unwrap(spec_doc)
        IN  /\ d.created = Or(RawCreated, RawModified)
            /\ d.updated = RawModified
            /\ IsSome(d.created)
            /\ IsSome(d.updated)
            /\ (IsSome(RawCreated) /\ Unwrap(RawModified) >= Unwrap(RawCreated)) =>
                   Unwrap(d.updated) >= Unwrap(d.created)

\* C11 (amended): the same for a readable stat that reports a modified time;
\* for one that reports none, updated falls back to the resolved created,
\* and both are absent when no creation time is reported either.
C11_StatTimesWhenModifiedReported ==
    (pc = "resolved" /\ NoDatesNoHistory /\ doc.stat /= None) =>
        LET d == Unwrap(spec_doc)
        IN  /\ IsSome(RawModified) =>
                /\ d.created = Or(RawCreated, RawModified)
                /\ d.updated = RawModified
                /\ IsSome(d.created)
                /\ IsSome(d.updated)
                /\ (IsSome(RawCreated)
                        /\ Unwrap(RawModified) >= Unwrap(RawCreated)) =>
                       Unwrap(d.updated) >= Unwrap(d.created)
            /\ RawModified = None =>
                /\ d.created = RawCreated
                /\ d.updated = RawCreated

\* an untracked document whose file was modified after it was created
C11_Witness ==
    /\ pc = "resolved"
    /\ NoDatesNoHistory
    /\ IsSome(RawCreated)
    /\ IsSome(RawModified)
    /\ Unwrap(RawModified) > Unwrap(RawCreated)
    /\ Unwrap(spec_doc).created = RawCreated
    /\ Unwrap(spec_doc).updated = RawModified

\* C17: a document's history-managed flag is true exactly when the cache
\* query for its paths returned a value for latest_addition or for
\* latest_change; it is false whenever no repository was found or no cache
\* was built.
C17_GitManagedIffHistoryValue ==
    pc = "resolved" =>
        LET d == Unwrap(spec_doc)
        IN  /\ d.git_managed <=> (IsSome(d.git_addition) \/ IsSome(d.git_change))
            /\ (~discovered \/ git_cache = None) => ~d.git_managed
            /\ d.git_addition =
                   (IF IsSome(git_cache)
                    THEN latest_addition(Unwrap(git_cache), doc.git_paths)
                    ELSE None)
            /\ d.git_change =
                   (IF IsSome(git_cache)
                    THEN latest_change(Unwrap(git_cache), doc.git_paths)
                    ELSE None)

\* a document the history knows a change of, but no addition
C17_Witness ==
    /\ pc = "resolved"
    /\ Unwrap(spec_doc).git_addition = None
    /\ IsSome(Unwrap(spec_doc).git_change)
    /\ Unwrap(spec_doc).git_managed

\* C18: when no repository is found at or above the given path, open returns
\* nothing, no cache is built, the document gets no history value (addition
\* and change both None), and its created and updated are resolved from the
\* metadata and the filesystem stat only.
C18_NoRepositoryNoHistory ==
    (pc /= "open" /\ ~discovered) =>
        /\ ~git_repo
        /\ git_cache = None
        /\ pc = "resolved" =>
            LET d == Unwrap(spec_doc)
            IN  /\ d.git_addition = None
                /\ d.git_change = None
                /\ ~d.git_managed
                /\ d.created = FirstPresent(<<doc.meta_created, RawCreated, RawModified>>)
                /\ d.updated = FirstPresent(<<doc.meta_updated, RawModified, d.created>>)

\* outside of any repository, a document dated by its metadata and its file
C18_Witness ==
    /\ pc = "resolved"
    /\ ~discovered
    /\ doc.meta_created = None
    /\ IsSome(doc.meta_updated)
    /\ IsSome(RawCreated)
    /\ Unwrap(spec_doc).created = RawCreated
    /\ Unwrap(spec_doc).updated = doc.meta_updated

-----------------------------------------------------------------------------
(* Claims on build_cache with failing objects or a failing setup           *)
(* (SpecFaulty, SpecTerminate)                                             *)

FaultyCommits == {c \in Commits : repo.fault[c] /= "none"}

\* C12: build_cache always terminates: whatever the history and the target
\* paths, resolved or not, and whichever commits fail to load, the walk
\* yields a commit it has not yielded before at every step and the build
\* eventually returns its cache.
C12_BuildTerminates ==
    /\ <>(pc = "done")
    /\ [][(pc = "walk" /\ pc' /= "start") =>
             \/ walked' = walked
             \/ \E c \in Reachable(repo) \ walked : walked' = walked \cup {c}]_vars

\* a build that returned with a target path unresolved, after a walk through
\* the whole history, one commit of which failed to load
C12_Witness ==
    /\ pc = "done"
    /\ walked = Reachable(repo)
    /\ walked \cap FaultyCommits /= {}
    /\ pending_additions /= {}

\* the commit the step from this state to the next one handles, if any
StepHandles(c) == pc = "walk" /\ c \notin walked /\ walked' = walked \cup {c}

\* c itself, its tree, its first parent or that parent's tree, or its diff
\* cannot be loaded
Offending(c) ==
    \/ repo.fault[c] /= "none"
    \/ repo.parent1[c] /= 0 /\ repo.fault[repo.parent1[c]] = "tree"

\* C13: when a commit, its tree, its first parent's tree or its diff cannot
\* be loaded or computed, the commit is skipped: the step that handles it
\* records no addition and no last_change for any path, and the walk goes on
\* with the remaining commits.
C13_OffendingCommitSkipped ==
    [][\A c \in Commits :
          (StepHandles(c) /\ Offending(c)) =>
              /\ times' = times
              /\ pending_additions' = pending_additions
              /\ pending_changes' = pending_changes
              /\ pc' = "walk"]_vars

\* C14: when the revwalk cannot be created, its ordering cannot be
\* configured or HEAD cannot be pushed, the build returns a cache in which
\* every target path has addition = None and last_change = None.
C14_SetupFailureGivesEmptyTimes ==
    (pc = "done" /\ repo.setup /= "ok") =>
        \A p \in DOMAIN times : times[p] = PathTimesDefault

\* the target set: the root-relative forms of the input paths under the root
ExpectedTargets ==
    {Absolute(p).rel : p \in {q \in Elems(paths) : Absolute(q).under_root}}

\* C16: wherever the build returns (empty target set, failed setup, history
\* exhausted, early exit) and at every step of the walk before, the keys of
\* the cache are exactly the normalized target set computed from the input
\* paths; when that set is empty the cache is empty and no commit is visited.
C16_KeysAreTargets ==
    pc /= "start" =>
        /\ DOMAIN times = ExpectedTargets
        /\ pending_additions \subseteq ExpectedTargets
        /\ pending_changes \subseteq ExpectedTargets
        /\ ExpectedTargets = {} => (pc = "done" /\ times = <<>> /\ walked = {})

\* an early exit with a.md the only target, after a commit that changed b.md
C16_Witness ==
    /\ pc = "done"
    /\ DOMAIN times = {"a.md"}
    /\ walked /= Reachable(repo)
    /\ \E c \in walked : repo.fault[c] = "none" /\ repo.tree[c]["b.md"] /= BlobBefore(c, "b.md")

-----------------------------------------------------------------------------
(* Claims on normalize_paths (SpecNormalize) *)

Canonicalized == {q \in Elems(paths) : IsSome(q.canonical)}

\* C15 (as stated): normalization never fails and drops every input path
\* that cannot be canonicalized and every path that resolves outside the
\* root; every key of the cache is the root-relative form of an input that
\* canonicalizes under the root.
C15_UncanonicalizableDropped ==
    pc /= "start" =>
        DOMAIN times =
            {Unwrap(q.canonical).rel :
                q \in {x \in Canonicalized : Unwrap(x.canonical).under_root}}

\* C15 (amended): normalization never fails and drops every input path that
\* resolves outside the root and every path that cannot be canonicalized and
\* is not written under the root; a path that cannot be canonicalized but is
\* written under the root is kept under its root-relative form as written.
C15_OffRootDropped ==
    pc /= "start" =>
        DOMAIN times =
            {Unwrap(q.canonical).rel :
                q \in {x \in Canonicalized : Unwrap(x.canonical).under_root}}
            \cup {q.lexical.rel :
                q \in {x \in Elems(paths) \ Canonicalized : x.lexical.under_root}}

\* a missing file written under the root is a key, a symbolic link out of
\* the root is none
C15_Witness ==
    /\ pc /= "start"
    /\ Elems(paths) = {RelGhost, RelLinkOut}
    /\ DOMAIN times = {"ghost.md"}

-----------------------------------------------------------------------------
(* Claims on the steps of the walk (Spec) *)

\* no field that is Some changes in the step, and no key is lost
FieldsKept ==
    pc \in {"walk", "done"} =>
        \A p \in DOMAIN times :
            /\ p \in DOMAIN times'
            /\ IsSome(times[p].addition) => times'[p].addition = times[p].addition
            /\ IsSome(times[p].last_change) =>
                   times'[p].last_change = times[p].last_change

\* C19: first-write-wins: once the addition or the last_change of a path is
\* Some(t), no later step of the walk changes that field; a field goes from
\* None to Some at most once and never back to None.
C19_FirstWriteWins == [][FieldsKept]_vars

\* the walk has met an older commit touching a path after the one that gave
\* the path its last_change
C19_Witness ==
    /\ pc \in {"walk", "done"}
    /\ \E p \in DOMAIN times :
        /\ IsSome(times[p].last_change)
        /\ \E c \in walked \cap TouchingCommits(p) :
               commit_time_to_millis(repo.time[c]) < Unwrap(times[p].last_change)

IsMerge(c) == repo.parent2[c] /= 0

\* a merge handled in the step sets nothing for a path it takes over from
\* its second parent alone
SecondParentChangeSetsNothing ==
    \A c \in Commits :
        (StepHandles(c) /\ IsMerge(c)) =>
            \A p \in DOMAIN times :
                (/\ repo.tree[c][p] /= repo.tree[repo.parent1[c]][p]
                 /\ repo.tree[c][p] = repo.tree[repo.parent2[c]][p]) =>
                    times'[p] = times[p]

\* C20 (as stated): every commit is diffed only against its first parent,
\* and a change to a target path that a merge takes over from its second
\* parent alone (the merge holds the second parent's content, not the first
\* parent's) sets neither last_change nor addition for that path.
C20_SecondParentChangeInvisible == [][SecondParentChangeSetsNothing]_vars

\* a merge handled in the step sets what its diff against the first parent
\* tells, and nothing else
MergeSetsFirstParentDelta ==
    \A c \in Commits :
        (StepHandles(c) /\ IsMerge(c)) =>
            \A p \in DOMAIN times :
                LET before == repo.tree[repo.parent1[c]][p]
                    after == repo.tree[c][p]
                    time == Some(commit_time_to_millis(repo.time[c]))
                IN  /\ after = before => times'[p] = times[p]
                    /\ (after /= before /\ p \in pending_changes) =>
                           times'[p].last_change = time
                    /\ (after /= 0 /\ before = 0 /\ p \in pending_additions) =>
                           times'[p].addition = time

\* C20 (amended): every commit is diffed only against its first parent: a
\* merge sets nothing for a target path it holds as its first parent does,
\* whatever the second parent holds; a path it holds otherwise, so also one
\* it takes over from the second parent, gets the merge's time as last_change
\* when that is still pending, and as addition when the first parent lacks
\* the path and that is still pending.
C20_MergeDiffedAgainstFirstParent == [][MergeSetsFirstParentDelta]_vars

\* the walk has handled a merge that holds a target path as its first parent
\* does and not as its second parent does, and the path is still pending
C20_Witness ==
    /\ pc = "walk"
    /\ \E c \in walked, p \in pending_changes :
        /\ IsMerge(c)
        /\ repo.tree[c][p] = repo.tree[repo.parent1[c]][p]
        /\ repo.tree[c][p] /= repo.tree[repo.parent2[c]][p]

-----------------------------------------------------------------------------
(* Claims on the early exit (Spec) *)

\* the collections of build_cache before its loop, for the target paths keys
BeforeWalk(keys) ==
    [times |-> [p \in keys |-> PathTimesDefault],
     pending_additions |-> keys,
     pending_changes |-> keys]

\* the caches a walk through all the commits the revwalk yields after done
\* can end with, from the collections st, without the early exit
RECURSIVE CompleteWalk(_, _)
CompleteWalk(st, done) ==
    IF RevwalkNext(repo, done) = {} THEN {st.times}
    ELSE UNION {CompleteWalk(ProcessCommit(st, repo, c), done \cup {c}) :
                    c \in RevwalkNext(repo, done)}

\* C21: the cache returned by the walk that stops as soon as both pending
\* sets are empty is the cache that a walk over the complete history, without
\* the early exit, returns.
C21_EarlyExitKeepsResult ==
    pc = "done" => CompleteWalk(BeforeWalk(DOMAIN times), {}) = {times}

\* a walk left early, before a commit that adds a target path
C21_Witness ==
    /\ pc = "done"
    /\ walked /= Reachable(repo)
    /\ \E p \in DOMAIN times : IntroducingCommits(p) \ walked /= {}

\* C22: the walk stops right after the first commit at whose end both
\* pending sets are empty, so that no commit is handled with both of them
\* empty, and it does not stop while a pending set is non-empty and the
\* revwalk has commits left.
C22_ExitExactlyWhenResolved ==
    /\ pc = "walk" => pending_additions \cup pending_changes /= {}
    /\ (pc = "done" /\ DOMAIN times /= {}) =>
           \/ pending_additions \cup pending_changes = {}
           \/ RevwalkNext(repo, walked) = {}
    /\ pc = "start" => walked = {}

\* a walk that stopped with commits left, and had not stopped one commit
\* earlier: the last commit it handled is the first to touch some target path
C22_Witness ==
    /\ pc = "done"
    /\ walked /= {}
    /\ walked /= Reachable(repo)
    /\ pending_additions \cup pending_changes = {}
    /\ \E p \in DOMAIN times :
           Cardinality(walked \cap TouchingCommits(p)) = 1

-----------------------------------------------------------------------------
(* Claims on the deltas (SpecFaulty, Spec) *)

Skipped(c) == repo.fault[c] \in {"oid", "commit", "tree", "diff"}

\* the status of the delta the walk sees for p when it handles c
SeenStatus(c, p) == IF Skipped(c) THEN "Unmodified" ELSE DeltaStatus(repo, c, p)

IntroducingStatuses == {"Added", "Renamed", "Copied"}

\* the handled commit sets an addition only through an introducing delta, and
\* any other delta leaves a pending addition pending
AdditionOnlyByIntroduction ==
    \A c \in Commits :
        StepHandles(c) =>
            \A p \in DOMAIN times :
                LET status == SeenStatus(c, p)
                    time == Some(commit_time_to_millis(repo.time[c]))
                IN  /\ times'[p].addition /= times[p].addition =>
                           (status \in IntroducingStatuses /\ p \in pending_additions)
                    /\ (status \notin IntroducingStatuses /\ p \in pending_additions) =>
                           (p \in pending_additions' /\ times'[p].addition = None)
                    /\ (status \in {"Modified", "Deleted"} /\ p \in pending_changes) =>
                           times'[p].last_change = time

\* the statuses of the deltas of p the walk has seen
SeenStatuses(p) == {SeenStatus(c, p) : c \in walked} \ {"Unmodified"}

\* C23: the addition of a target path is set only by a delta whose status is
\* Added, Renamed or Copied; a delta of another status on a pending path
\* sets at most last_change and leaves the path in pending_additions; a path
\* with deltas in the visited history, none of them introducing, ends with
\* last_change present and addition None.
C23_AdditionOnlyByIntroduction ==
    /\ [][AdditionOnlyByIntroduction]_vars
    /\ [](pc = "done" =>
            \A p \in DOMAIN times :
                (SeenStatuses(p) /= {} /\ SeenStatuses(p) \cap IntroducingStatuses = {}) =>
                    (IsSome(times[p].last_change) /\ times[p].addition = None))

\* a target path the walk has only seen modified: the commit that added it
\* could not be loaded
C23_Witness ==
    /\ pc = "done"
    /\ \E p \in DOMAIN times :
        /\ SeenStatuses(p) = {"Modified"}
        /\ IsSome(times[p].last_change)
        /\ times[p].addition = None

\* a handled commit without parent gives its time to the pending fields of
\* every target path in its tree
RootCommitAddsItsTree ==
    \A c \in Commits :
        (StepHandles(c) /\ repo.parent1[c] = 0 /\ ~Skipped(c)) =>
            \A p \in DOMAIN times :
                LET time == Some(commit_time_to_millis(repo.time[c]))
                IN  repo.tree[c][p] /= 0 =>
                        /\ p \in pending_additions => times'[p].addition = time
                        /\ p \in pending_changes => times'[p].last_change = time
                        /\ p \notin pending_additions' \cup pending_changes'

\* C24: a commit with no parent is diffed against the empty tree: every
\* target path in its tree counts as added there, so a target path still
\* pending when the walk reaches that commit gets the commit's time for
\* addition, and for last_change if that is still pending.
C24_RootCommitAddsItsTree == [][RootCommitAddsItsTree]_vars

\* a target path whose addition comes from the root commit and whose
\* last_change comes from a newer commit
C24_Witness ==
    /\ pc = "done"
    /\ \E p \in DOMAIN times, c \in walked :
        /\ repo.parent1[c] = 0
        /\ IntroducingCommits(p) = {c}
        /\ times[p].addition = Some(commit_time_to_millis(repo.time[c]))
        /\ IsSome(times[p].last_change)
        /\ Unwrap(times[p].last_change) > commit_time_to_millis(repo.time[c])

-----------------------------------------------------------------------------
(* Claims on the target set (SpecNormalize) *)

\* the places under the root the input paths denote
DenotedFiles ==
    {Absolute(q) : q \in {x \in Elems(paths) : Absolute(x).under_root}}

\* C25: normalization deduplicates by the final relative form: input paths
\* that denote the same file (an absolute and a root-relative path, a path
\* given twice) give one entry of the target set, and the map has one
\* PathTimes entry for it.
C25_OneEntryPerFile ==
    pc /= "start" =>
        /\ Cardinality(DOMAIN times) = Cardinality(DenotedFiles)
        /\ \A f \in DenotedFiles : f.rel \in DOMAIN times
        /\ \A i, j \in 1..Len(paths) :
               (Absolute(paths[i]) = Absolute(paths[j]) /\ Absolute(paths[i]).under_root) =>
                   Cardinality({k \in DOMAIN times :
                       k \in {paths[i].text, paths[j].text, Absolute(paths[i]).rel}}) = 1

\* b.md given by its absolute path and by its root-relative path
C25_Witness ==
    /\ pc /= "start"
    /\ paths = <<AbsB, RelB>>
    /\ DOMAIN times = {"b.md"}

-----------------------------------------------------------------------------
(* Claims on commit_time_to_millis (SpecOverflow) *)

\* the milliseconds of the commit times of the history, as numbers
TrueMillis == {repo.time[c] * 1000 : c \in Commits}

\* C26: the conversion of a commit time never overflows: for every commit
\* time in seconds an i64 holds, seconds * 1000 is an i64, so the build
\* neither panics nor records a wrapped value.
C26_ConversionNeverOverflows ==
    /\ pc /= "panic"
    /\ \A p \in DOMAIN times :
        /\ IsSome(times[p].addition) => Unwrap(times[p].addition) \in TrueMillis
        /\ IsSome(times[p].last_change) => Unwrap(times[p].last_change) \in TrueMillis

-----------------------------------------------------------------------------
(* Claims on first_commit_timestamp and last_commit_timestamp              *)
(* (SpecTimestamp)                                                         *)

RecordedAdditions ==
    {Unwrap(times[k].addition) : k \in {x \in DOMAIN times : IsSome(times[x].addition)}}

RecordedChanges ==
    {Unwrap(times[k].last_change) :
        k \in {x \in DOMAIN times : IsSome(times[x].last_change)}}

\* C27: for input paths given as absolute paths under the root as well as
\* root-relative ones, the cache built from the paths and queried with the
\* same paths returns the maximum addition and the maximum last_change
\* recorded for them: Some whenever one of the paths is tracked in history.
C27_ConstructionPathsFound ==
    pc = "queried" =>
        /\ queries[Len(queries)].latest_addition = MaxOrNone(RecordedAdditions)
        /\ queries[Len(queries)].latest_change = MaxOrNone(RecordedChanges)

-----------------------------------------------------------------------------
(* Claims on the PathTimes of the cache (SpecFaulty) *)

\* C28: in every state of the walk and in the returned cache, for every
\* target path, an addition present implies a last_change present; and when
\* the commits are visited in non-increasing commit-time order (the revwalk
\* is sorted), addition <= last_change.
C28_AdditionImpliesLastChange ==
    \A p \in DOMAIN times :
        IsSome(times[p].addition) =>
            /\ IsSome(times[p].last_change)
            /\ repo.setup /= "sorting" =>
                   Unwrap(times[p].addition) <= Unwrap(times[p].last_change)

\* during a sorted walk, a path with an addition older than its last_change
C28_Witness ==
    /\ pc = "walk"
    /\ repo.setup = "ok"
    /\ \E p \in DOMAIN times :
        /\ IsSome(times[p].addition)
        /\ IsSome(times[p].last_change)
        /\ Unwrap(times[p].addition) < Unwrap(times[p].last_change)

-----------------------------------------------------------------------------
(* Claims on the one cache built for all the documents (Spec) *)

\* the caches build_cache can return for the target paths keys alone
RECURSIVE WalkAlone(_, _)
WalkAlone(st, done) ==
    IF EarlyExit(st) \/ RevwalkNext(repo, done) = {} THEN {st.times}
    ELSE UNION {WalkAlone(ProcessCommit(st, repo, c), done \cup {c}) :
                    c \in RevwalkNext(repo, done)}

BuiltAlone(keys) == WalkAlone(BeforeWalk(keys), {})

\* the lists of root-relative paths a document with the paths D is queried by
DocPaths(D) == SeqsUpTo({x \in GitPathBufs : x.text \in D}, MaxPaths)

\* C29: for a document whose paths D are a subset of the batch's target set
\* T, latest_addition(D) and latest_change(D) on the one cache built from T
\* equal the values on a cache built from D alone: the other paths of the
\* batch do not influence a path's timestamps.
C29_BatchEqualsAlone ==
    pc = "done" =>
        \A D \in SUBSET DOMAIN times :
            \A alone \in BuiltAlone(D) :
                \A ps \in DocPaths(D) :
                    /\ latest_addition(times, ps) = latest_addition(alone, ps)
                    /\ latest_change(times, ps) = latest_change(alone, ps)

\* a batch of two tracked paths, the walk for both longer than the walk for
\* the path resolved first
C29_Witness ==
    /\ pc = "done"
    /\ DOMAIN times = Paths
    /\ \E p \in Paths :
        /\ IsSome(times[p].addition)
        /\ \E c \in walked :
               commit_time_to_millis(repo.time[c]) < Unwrap(times[p].addition)
    /\ \A p \in Paths : IsSome(times[p].last_change)

-----------------------------------------------------------------------------
(* Claims on the order of the documents (SpecSort) *)

\* the ways to list the elements of the sequence v
Rearrangements(v) ==
    {[i \in 1..Len(v) |-> v[f[i]]] :
        f \in {g \in [1..Len(v) -> 1..Len(v)] :
                  \A i, j \in 1..Len(v) : i /= j => g[i] /= g[j]}}

DistinctIds(v) == \A i, j \in 1..Len(v) : i /= j => v[i].id /= v[j].id

\* by updated_sort descending, ties by id descending
InOrder(v) ==
    \A i, j \in 1..Len(v) :
        i < j =>
            \/ v[i].updated_sort > v[j].updated_sort
            \/ v[i].updated_sort = v[j].updated_sort /\ v[i].id >= v[j].id

\* a sort keeps the documents, each as often as it was there
SortKeepsDocuments ==
    /\ (pc = "loaded" /\ pc' = "sorted") => specs' \in Rearrangements(specs)
    /\ (pc = "sorted" /\ pc' = "built") =>
           \E pushed \in SeqsUpTo(SpecDocuments, MaxSpecs - Len(specs)) :
               specs' \in Rearrangements(specs \o pushed)

\* C30: after load_and_sort_specs, and after the sort in run_build, the
\* documents are ordered by updated_sort descending, ties broken by id
\* descending; for documents with distinct ids the order is total and does
\* not depend on the order in which the documents were found.
C30_SortedByUpdatedThenId ==
    /\ [][SortKeepsDocuments]_vars
    /\ [](pc \in {"sorted", "built"} =>
            /\ InOrder(specs)
            /\ DistinctIds(specs) =>
                   \A v \in Rearrangements(specs) : sort_by(v) = specs)

\* two documents with one updated_sort and different ids, the greater id
\* first
C30_Witness ==
    /\ pc = "sorted"
    /\ Len(specs) = 2
    /\ specs[1].updated_sort = specs[2].updated_sort
    /\ specs[1].id > specs[2].id

====
